---- MODULE Spec2Model ----
(***************************************************************************)
(* State-machine model of OpenMediaVaultAPI (omv_api.py): one API object    *)
(* shared by the threads that call connect, connection_check, query,       *)
(* disconnect and has_reconnected on it.                                    *)
(*                                                                           *)
(* Granularity: a step runs from one point where a thread can block or      *)
(* wait (lock.acquire, the transport's post) to the next.  Every call a     *)
(* handler makes is followed inside the step that makes it.                 *)
(***************************************************************************)
EXTENDS Integers, Sequences, FiniteSets, TLC

\* ------------------------------------------------------------------ bounds
\* calls started and clock advances, in all: one thread / two threads
MaxOps == 5
MaxOpsShared == 3

\* ------------------------------------------------------- program constants
RetrySec == 58
\* mutant: a third code is taken for session-expired
ExpiredCodesWide == {5000, 5001, 5002}

ExpiredCodes == {5001, 5002}

\* -------------------------------------------------------------- the world
Threads == {"a", "b"}
NoOne == "free"
NoSession == 0
\* time() is Unix time: the clock starts beyond one retry window after 0.
StartTime == RetrySec + 1
TickSteps == {1, RetrySec - 1}
Payloads == {"p1", "p2"}
BadLoginMsg == "Incorrect username or password"
LoginOutcomes == {"ok", "transport", "badlogin", "apperror", "unauth"}
ErrorCodes == ExpiredCodes \cup {5000}
\* error = 0 stands for "error": null
Envelopes ==
    {[error |-> 0, response |-> p] : p \in Payloads}
        \cup {[error |-> c, response |-> "null"] : c \in ErrorCodes}
NoData == [error |-> 0, response |-> "null"]
Frame(p) == [pc |-> p, data |-> NoData]

VARIABLES
    api,          \* the object's fields set by __init__ (lines 33-39)
    lock,         \* self.lock: NoOne, or the thread that acquired it
    stack,        \* per thread: the frames of the calls it is in, innermost first
    ret,          \* per thread: what its last finished call returned or raised
    inflight,     \* per thread: the session its transport post is running on
    nsess,        \* number of requests.Session() objects created so far
    now,          \* time()
    callers,      \* the threads that use the object
    ops,          \* calls started and clock advances so far
    authed,       \* sessions on which a login succeeded
    lastAuthed,   \* the session of the most recent successful login
    ev,           \* the statement group the last step ran, and what it logged
    streakFails,  \* failed connects since the last success or disconnect
    streakLogs,   \* error lines connect logged in that streak
    reads,        \* results of has_reconnected since the last successful connect
    discAt,       \* Len(reads) when disconnect first ran since then, or -1
    cur,          \* per thread: the method it called last, and what that call found
    sent,         \* per thread: the requests of that call and the logins' results
    lastTry       \* the most recent entry into connect(), and the one before it

vars ==
    <<api, lock, stack, ret, inflight, nsess, now, callers, ops,
      authed, lastAuthed, ev, streakFails, streakLogs, reads, discAt,
      cur, sent, lastTry>>

progVars == <<api, lock, inflight, nsess>>
histVars == <<authed, lastAuthed, streakFails, streakLogs, reads, discAt>>
callVars == <<cur, sent, lastTry>>

InitApi ==
    [connection |-> NoSession,
     connected |-> FALSE,
     reconnected |-> FALSE,
     connection_epoch |-> 0,
     error |-> "None",
     connection_error_reported |-> FALSE]

\* o: the outcome of the exchange that the step ended ("" if it ended none)
NoEvent == [t |-> "-", kind |-> "init", log |-> "", prior |-> FALSE, o |-> ""]
EventO(t, k, l, p, o) == [t |-> t, kind |-> k, log |-> l, prior |-> p, o |-> o]
Event(t, k, l, p) == EventO(t, k, l, p, "")

NoCall == [op |-> "none", conn |-> FALSE, window |-> FALSE]
NoTry ==
    [at |-> 0, src |-> "none", res |-> "none", disc |-> FALSE,
     chained |-> FALSE, gap |-> 0]

\* ------------------------------------------------------------ pure helpers

\* mutant: the retry window is left out of the comparison
InCooldownNoWindow(s, clock) == s.connection_epoch > clock

\* line 59: self._connection_epoch > time() - self._connection_retry_sec
InCooldown(s, clock) == s.connection_epoch > clock - RetrySec

\* mutant: line 62 is missing, connect() is not called
ConnectionCheckSkipsConnect(s, clock) ==
    IF ~s.connected \/ s.connection = NoSession
        THEN IF InCooldown(s, clock) THEN "False" ELSE "True"
        ELSE "True"

\* lines 58-65, up to the call of connect
ConnectionCheck(s, clock) ==
    IF ~s.connected \/ s.connection = NoSession
        THEN IF InCooldown(s, clock) THEN "False" ELSE "connect"
        ELSE "True"

\* mutant: lines 165-166 are missing
error_to_strings_one_kind(msg) == "cannot_connect"

\* lines 162-166
error_to_strings(msg) ==
    IF msg = BadLoginMsg THEN "wrong_login" ELSE "cannot_connect"

\* mutant: line 88 is missing
DisconnectKeepsEpoch(s) ==
    [s EXCEPT !.connection_error_reported = TRUE,
              !.reconnected = FALSE,
              !.connected = FALSE,
              !.connection = NoSession]

\* lines 75-88
Disconnect(s) ==
    [s EXCEPT !.connection_error_reported = TRUE,
              !.reconnected = FALSE,
              !.connected = FALSE,
              !.connection = NoSession,
              !.connection_epoch = 0]

DisconnectLog(s) == IF s.connection_error_reported THEN "" ELSE "error"

\* mutant: line 96 is missing
ConnectEntryKeepsConnected(s, clock, n) ==
    [s EXCEPT !.error = "",
              !.connection_epoch = clock,
              !.connection = n + 1]

\* mutant: line 97 is missing
ConnectEntryNoStamp(s, clock, n) ==
    [s EXCEPT !.error = "",
              !.connected = FALSE,
              !.connection = n + 1]

\* lines 95-98
ConnectEntry(s, clock, n) ==
    [s EXCEPT !.error = "",
              !.connected = FALSE,
              !.connection_epoch = clock,
              !.connection = n + 1]

\* mutant: acquire() does not wait
CanAcquireAlways(l) == TRUE

\* lock.acquire() blocks until the lock is free (threading.Lock is not reentrant)
CanAcquire(l) == l = NoOne

\* ---------------------------------------------------- calls and returns
\* m is the part of the state one thread's step works on:
\*   [api, lock, nsess, stack, ret]

RECURSIVE Return(_, _, _)

\* connect() up to lock.acquire()
EnterConnect(m, clock) ==
    [m EXCEPT !.api = ConnectEntry(m.api, clock, m.nsess),
              !.nsess = m.nsess + 1,
              !.stack = <<Frame("c_acquire")>> \o m.stack]

\* connection_check()
EnterConnectionCheck(m, clock) ==
    LET r == ConnectionCheck(m.api, clock) IN
    IF r = "connect"
        THEN EnterConnect([m EXCEPT !.stack = <<Frame("cc_call")>> \o m.stack], clock)
        ELSE Return(m, r, clock)

\* query() up to lock.acquire()
EnterQuery(m, clock) ==
    EnterConnectionCheck([m EXCEPT !.stack = <<Frame("q_check")>> \o m.stack], clock)

\* lines 226-227 of the query whose frame is Head(m.stack)
QueryExit(m, clock) ==
    IF m.lock = NoOne
        THEN [m EXCEPT !.stack = <<>>, !.ret = "RuntimeError"]
        ELSE Return([m EXCEPT !.lock = NoOne, !.stack = Tail(m.stack)],
                    Head(m.stack).data.response, clock)

\* The callee's frame is popped; v is what it returned.  Head(m.stack) is the
\* frame of the caller, waiting at the call.
Return(m, v, clock) ==
    IF m.stack = <<>>
        THEN [m EXCEPT !.ret = v]
        ELSE LET f == Head(m.stack)
                 rest == Tail(m.stack)
             IN  CASE f.pc = "cc_call" ->
                        \* lines 62-65
                        Return([m EXCEPT !.stack = rest], v, clock)
                   [] f.pc = "q_check" ->
                        \* lines 180-189
                        IF v = "False"
                            THEN Return([m EXCEPT !.stack = rest], "None", clock)
                            ELSE [m EXCEPT !.stack = <<[f EXCEPT !.pc = "q_acquire"]>> \o rest]
                   [] f.pc = "q_reauth" ->
                        \* lines 217-218
                        IF v = "True"
                            THEN EnterQuery(
                                    [m EXCEPT !.stack = <<[f EXCEPT !.pc = "q_retry"]>> \o rest],
                                    clock)
                            ELSE QueryExit(m, clock)
                   [] f.pc = "q_retry" ->
                        \* line 218: the value is dropped
                        QueryExit(m, clock)
                   [] OTHER -> m

Mine(t) == [api |-> api, lock |-> lock, nsess |-> nsess, stack |-> stack[t], ret |-> ret[t]]

Apply(t, m) ==
    /\ api' = m.api
    /\ lock' = m.lock
    /\ nsess' = m.nsess
    /\ stack' = [stack EXCEPT ![t] = m.stack]
    /\ ret' = [ret EXCEPT ![t] = m.ret]

Idle(t) == stack[t] = <<>>
At(t, p) == stack[t] # <<>> /\ Head(stack[t]).pc = p
SetPc(st, p) == <<[Head(st) EXCEPT !.pc = p]>> \o Tail(st)

Budget == IF Cardinality(callers) = 1 THEN MaxOps ELSE MaxOpsShared
CanCall(t) == t \in callers /\ Idle(t) /\ ops < Budget

\* what a call finds on entry: connected with a session, and inside the
\* retry window of the last connect() entry
Found(op) ==
    [op |-> op,
     conn |-> api.connected /\ api.connection # NoSession,
     window |-> now - api.connection_epoch < RetrySec]

\* connect() is entered from src: "explicit", "check" or "reauth"
NewTry(src) ==
    [at |-> now, src |-> src, res |-> "pending", disc |-> FALSE,
     chained |-> lastTry.src = "check" /\ lastTry.res = "fail" /\ ~lastTry.disc,
     gap |-> now - lastTry.at]

Began(t, op) ==
    /\ cur' = [cur EXCEPT ![t] = Found(op)]
    /\ sent' = [sent EXCEPT ![t] = <<>>]

\* ------------------------------------------------------------ the actions

\* A caller calls connect(): lines 95-98
CallConnect(t) ==
    /\ CanCall(t)
    /\ Apply(t, EnterConnect(Mine(t), now))
    /\ ops' = ops + 1
    /\ ev' = Event(t, "call_connect", "", api.connection_error_reported)
    /\ Began(t, "connect")
    /\ lastTry' = NewTry("explicit")
    /\ UNCHANGED <<inflight, now, callers, histVars>>

\* A caller calls connection_check(): lines 58-65, and 95-98 if it connects
CallConnectionCheck(t) ==
    /\ CanCall(t)
    /\ Apply(t, EnterConnectionCheck(Mine(t), now))
    /\ ops' = ops + 1
    /\ ev' = Event(t, "call_connection_check", "", api.connection_error_reported)
    /\ Began(t, "connection_check")
    /\ lastTry' = IF nsess' > nsess THEN NewTry("check") ELSE lastTry
    /\ UNCHANGED <<inflight, now, callers, histVars>>

\* A caller calls query(): lines 180-187, with connection_check()
CallQuery(t) ==
    /\ CanCall(t)
    /\ Apply(t, EnterQuery(Mine(t), now))
    /\ ops' = ops + 1
    /\ ev' = Event(t, "call_query", "", api.connection_error_reported)
    /\ Began(t, "query")
    /\ lastTry' = IF nsess' > nsess THEN NewTry("check") ELSE lastTry
    /\ UNCHANGED <<inflight, now, callers, histVars>>

\* A caller calls disconnect(): lines 72-88
CallDisconnect(t) ==
    /\ CanCall(t)
    /\ api' = Disconnect(api)
    /\ ret' = [ret EXCEPT ![t] = "None"]
    /\ ops' = ops + 1
    /\ ev' = Event(t, "disconnect", DisconnectLog(api), api.connection_error_reported)
    /\ streakFails' = 0
    /\ streakLogs' = 0
    /\ discAt' = IF discAt = -1 THEN Len(reads) ELSE discAt
    /\ Began(t, "disconnect")
    /\ lastTry' = [lastTry EXCEPT !.disc = TRUE]
    /\ UNCHANGED <<lock, stack, inflight, nsess, now, callers,
                   authed, lastAuthed, reads>>

\* mutant: line 48 is missing
HasReconnectedApiNoClear(s) == s

\* lines 47-51
HasReconnectedApi(s) == [s EXCEPT !.reconnected = FALSE]

\* A caller calls has_reconnected(): lines 47-51
CallHasReconnected(t) ==
    /\ CanCall(t)
    /\ api' = HasReconnectedApi(api)
    /\ ret' = [ret EXCEPT ![t] = IF api.reconnected THEN "True" ELSE "False"]
    /\ ops' = ops + 1
    /\ ev' = Event(t, "has_reconnected", "", api.connection_error_reported)
    /\ reads' = Append(reads, api.reconnected)
    /\ Began(t, "has_reconnected")
    /\ UNCHANGED <<lock, stack, inflight, nsess, now, callers,
                   authed, lastAuthed, streakFails, streakLogs, discAt, lastTry>>

\* line 100 (connect) and line 189 (query): self.lock.acquire()
Acquire(t) ==
    /\ At(t, "c_acquire") \/ At(t, "q_acquire")
    /\ CanAcquire(lock)
    /\ lock' = t
    /\ stack' = [stack EXCEPT ![t] =
                    SetPc(@, IF At(t, "c_acquire") THEN "c_post" ELSE "q_post")]
    /\ ev' = Event(t, "acquire", "", api.connection_error_reported)
    /\ UNCHANGED <<api, ret, inflight, nsess, now, callers, ops, histVars, callVars>>

\* lines 102 and 199: self._connection.post(...) sends the request; on None
\* the attribute lookup raises AttributeError, which nothing catches.
Post(t) ==
    /\ At(t, "c_post") \/ At(t, "q_post")
    /\ IF api.connection = NoSession
          THEN /\ stack' = [stack EXCEPT ![t] = <<>>]
               /\ ret' = [ret EXCEPT ![t] = "AttributeError"]
               /\ ev' = Event(t, "raise", "", api.connection_error_reported)
               /\ UNCHANGED <<inflight, sent>>
          ELSE /\ stack' = [stack EXCEPT ![t] =
                              SetPc(@, IF At(t, "c_post") THEN "c_resp" ELSE "q_resp")]
               /\ inflight' = [inflight EXCEPT ![t] = api.connection]
               /\ ev' = Event(t, "post", "", api.connection_error_reported)
               /\ sent' = [sent EXCEPT ![t] =
                              Append(@, IF At(t, "c_post") THEN "login" ELSE "query")]
               /\ UNCHANGED ret
    /\ UNCHANGED <<api, lock, nsess, now, callers, ops, histVars, cur, lastTry>>

\* mutant: line 149 is missing
ConnectOkApiKeepsReported(s) ==
    [s EXCEPT !.connected = TRUE,
              !.reconnected = TRUE]

\* lines 146-155: the login succeeded
ConnectOkApi(s) ==
    [s EXCEPT !.connection_error_reported = FALSE,
              !.connected = TRUE,
              !.reconnected = TRUE]

ConnectOkLog(s) == IF s.connection_error_reported THEN "warning" ELSE "debug"

\* lines 116-126, 130-133, 137-142: the login failed with outcome o
ConnectFailApi(s, o) ==
    [s EXCEPT !.connection_error_reported =
                  IF o \in {"badlogin", "apperror"} THEN TRUE ELSE @,
              !.error =
                  CASE o = "badlogin" -> error_to_strings(BadLoginMsg)
                    [] o = "apperror" -> error_to_strings("Session not authenticated.")
                    [] o = "unauth" -> error_to_strings("")
                    [] OTHER -> error_to_strings("Connection refused"),
              !.connection = NoSession]

ConnectFailLog(s, o) ==
    IF o \in {"badlogin", "apperror"} /\ s.connection_error_reported
        THEN ""
        ELSE "error"

\* lines 115-157: the login exchange ends with outcome o; the lock is
\* released and connect() returns to its caller.
ConnectResponse(t) ==
    /\ At(t, "c_resp")
    /\ \E o \in LoginOutcomes :
          LET ok == o = "ok"
              a == IF ok THEN ConnectOkApi(api) ELSE ConnectFailApi(api, o)
              l == IF ok THEN ConnectOkLog(api) ELSE ConnectFailLog(api, o)
              m == [Mine(t) EXCEPT !.api = a, !.lock = NoOne, !.stack = Tail(@)]
          IN  /\ Apply(t, Return(m, IF a.connected THEN "True" ELSE "False", now))
              /\ ev' = EventO(t, IF ok THEN "connect_ok" ELSE "connect_fail", l,
                              api.connection_error_reported, o)
              /\ sent' = [sent EXCEPT ![t] = Append(@, IF ok THEN "ok" ELSE "fail")]
              /\ lastTry' = [lastTry EXCEPT !.res = IF ok THEN "ok" ELSE "fail"]
              /\ authed' = IF ok THEN authed \cup {inflight[t]} ELSE authed
              /\ lastAuthed' = IF ok THEN inflight[t] ELSE lastAuthed
              /\ streakFails' = IF ok THEN 0 ELSE streakFails + 1
              /\ streakLogs' = IF ok THEN 0
                               ELSE streakLogs + (IF l = "error" THEN 1 ELSE 0)
              /\ reads' = IF ok THEN <<>> ELSE reads
              /\ discAt' = IF ok THEN -1 ELSE discAt
    /\ inflight' = [inflight EXCEPT ![t] = NoSession]
    /\ UNCHANGED <<now, callers, ops, cur>>

\* lines 211-227: the query exchange ends with envelope e
QueryEnvelope(t, e) ==
    LET m == Mine(t) IN
    IF e.error \in ExpiredCodes
        THEN \* lines 215-217: connect() is called with the lock held
             /\ Apply(t, EnterConnect(
                            [m EXCEPT !.stack = <<[Head(@) EXCEPT !.pc = "q_reauth",
                                                                  !.data = e]>> \o Tail(@)],
                            now))
             /\ ev' = EventO(t, "query_expired", "", api.connection_error_reported,
                              ToString(e.error))
             /\ lastTry' = NewTry("reauth")
        ELSE \* lines 226-227
             /\ Apply(t, Return([m EXCEPT !.lock = NoOne, !.stack = Tail(@)],
                                e.response, now))
             /\ ev' = EventO(t, "query_return", "", api.connection_error_reported,
                              ToString(e.error))
             /\ UNCHANGED lastTry

\* mutant: line 222 is missing
QueryTransportErrorNoDisconnect(t) ==
    LET m == [Mine(t) EXCEPT !.lock = NoOne, !.stack = Tail(@)]
    IN  /\ Apply(t, Return(m, "None", now))
        /\ ev' = EventO(t, "query_fail", "", api.connection_error_reported, "transport")
        /\ UNCHANGED lastTry

\* lines 220-224: the post raised ConnectionError
QueryTransportError(t) ==
    LET m == [Mine(t) EXCEPT !.api = Disconnect(@), !.lock = NoOne, !.stack = Tail(@)]
    IN  /\ Apply(t, Return(m, "None", now))
        /\ ev' = EventO(t, "query_fail", DisconnectLog(api),
                         api.connection_error_reported, "transport")
        /\ UNCHANGED lastTry

QueryResponse(t) ==
    /\ At(t, "q_resp")
    /\ \/ /\ \E e \in Envelopes : QueryEnvelope(t, e)
          /\ UNCHANGED <<streakFails, streakLogs, discAt>>
       \/ /\ QueryTransportError(t)
          /\ streakFails' = 0
          /\ streakLogs' = 0
          /\ discAt' = IF discAt = -1 THEN Len(reads) ELSE discAt
    /\ inflight' = [inflight EXCEPT ![t] = NoSession]
    /\ UNCHANGED <<now, callers, ops, authed, lastAuthed, reads, cur, sent>>

\* time() advances
Tick ==
    /\ ops < Budget
    /\ \E d \in TickSteps : now' = now + d
    /\ ops' = ops + 1
    /\ ev' = Event("-", "tick", "", api.connection_error_reported)
    /\ UNCHANGED <<api, lock, stack, ret, inflight, nsess, callers, histVars, callVars>>

\* the steps of a call that is under way
Continue(t) == Acquire(t) \/ Post(t) \/ ConnectResponse(t) \/ QueryResponse(t)

Call(t) ==
    \/ CallConnect(t)
    \/ CallConnectionCheck(t)
    \/ CallQuery(t)
    \/ CallDisconnect(t)
    \/ CallHasReconnected(t)

Next ==
    \/ \E t \in callers : CallConnect(t)
    \/ \E t \in callers : CallConnectionCheck(t)
    \/ \E t \in callers : CallQuery(t)
    \/ \E t \in callers : CallDisconnect(t)
    \/ \E t \in callers : CallHasReconnected(t)
    \/ \E t \in callers : Acquire(t)
    \/ \E t \in callers : Post(t)
    \/ \E t \in callers : ConnectResponse(t)
    \/ \E t \in callers : QueryResponse(t)
    \/ Tick

InitWith(cs) ==
    /\ api = InitApi
    /\ lock = NoOne
    /\ stack = [t \in Threads |-> <<>>]
    /\ ret = [t \in Threads |-> "-"]
    /\ inflight = [t \in Threads |-> NoSession]
    /\ nsess = 0
    /\ now = StartTime
    /\ callers = cs
    /\ ops = 0
    /\ authed = {}
    /\ lastAuthed = NoSession
    /\ ev = NoEvent
    /\ streakFails = 0
    /\ streakLogs = 0
    /\ reads = <<>>
    /\ discAt = -1
    /\ cur = [t \in Threads |-> NoCall]
    /\ sent = [t \in Threads |-> <<>>]
    /\ lastTry = NoTry

\* two threads share the object
Init == InitWith(Threads)
Spec == Init /\ [][Next]_vars

\* one thread uses the object
InitSingle == InitWith({"a"})
SpecSingle == InitSingle /\ [][Next]_vars

\* one thread, and a call that can take a step takes it
FairSingle == InitSingle /\ [][Next]_vars /\ WF_vars(Continue("a"))

\* ------------------------------------------------------------------ claims

\* the thread is in a query() that got a session-expired envelope (line 217)
InReauth(t) == \E i \in DOMAIN stack[t] : stack[t][i].pc = "q_reauth"
Waiting(t) == At(t, "c_acquire") \/ At(t, "q_acquire")
Reported == api.connection_error_reported

\* C1: a query whose response carries a session-expired code performs one
\* re-authentication: the login exchange of the connect() it calls is sent.
C1_ExpiredTriggersReauth ==
    \A t \in Threads :
        InReauth(t) ~> (At(t, "c_resp") /\ inflight[t] # NoSession)

\* C2: no caller waits for the mutex that it holds itself.
C2_NeverBlocksOnOwnLock ==
    \A t \in Threads : ~(Waiting(t) /\ lock = t)

\* C3: a query whose first response was session-expired returns to its caller,
\* with the payload of a retried exchange (or None when the recovery failed).
C3_RecoveryReturnsRetriedPayload ==
    \A t \in Threads :
        InReauth(t) ~> (Idle(t) /\ ret[t] \in Payloads \cup {"None"})

\* C4: with one caller, connected implies that the transport session is not
\* null and is the session on which the most recent login succeeded.
C4_ConnectedImpliesAuthedSession ==
    api.connected => (api.connection # NoSession /\ api.connection = lastAuthed)

\* C4 witness: connected again, on a second session, after another attempt.
C4_Witness ==
    /\ api.connected
    /\ ev.kind = "connect_ok"
    /\ api.connection >= 2
    /\ api.connection = lastAuthed

\* C5: with two callers at most one transport post is in flight, and the
\* thread whose post is in flight holds the mutex.
C5_OneExchangeAtATime ==
    /\ Cardinality({t \in Threads : inflight[t] # NoSession}) <= 1
    /\ \A t \in Threads : inflight[t] # NoSession => lock = t

\* C5 witness: one caller's exchange is in flight while the other waits for
\* the mutex.
C5_Witness ==
    \E t, u \in Threads :
        /\ t # u
        /\ inflight[t] # NoSession
        /\ Waiting(u)

\* C6: with two callers, connected implies that the transport session is a
\* session on which a login succeeded (so it is not null).
C6_NoRaceOnSession ==
    api.connected => api.connection \in authed

\* C7: in a streak of failed connects the error is logged exactly once.  The
\* streaks looked at begin on a fresh object or after a successful connect
\* (no disconnect, which sets errorAlreadyReported itself, came before them).
C7_OneLogPerStreak ==
    (streakFails >= 1 /\ discAt = -1) => streakLogs = 1

C9_TrueExactlyOnce ==
    (lastAuthed # NoSession /\ Len(reads) >= 1) =>
        /\ reads[1]
        /\ \A i \in 2..Len(reads) : ~reads[i]

\* C9 as amended: the first has_reconnected() after a successful connect()
\* returns true unless a disconnect ran since that connect; every other read
\* returns false; only a successful connect() sets the flag.
C9_TrueAtMostOnce ==
    /\ [](/\ \A i \in 2..Len(reads) : ~reads[i]
          /\ Len(reads) >= 1 => (reads[1] <=> (lastAuthed # NoSession /\ discAt # 0)))
    /\ [][(~api.reconnected /\ api.reconnected') => ev'.kind = "connect_ok"]_vars

\* C9 witness: after a successful connect() a read returned true and the
\* next one false.
C9_Witness ==
    /\ lastAuthed # NoSession
    /\ Len(reads) >= 2
    /\ reads[1]
    /\ ~reads[2]

\* C10: connection_check() while not connected and inside the retry window
\* returns false, sends nothing and changes no field; while connected with a
\* session it returns true, also without sending.
C10_CooldownGate ==
    [][\A t \in Threads :
          (ev'.t = t /\ ev'.kind = "call_connection_check") =>
              /\ ((~api.connected \/ api.connection = NoSession)
                      /\ now - api.connection_epoch < RetrySec) =>
                    (ret'[t] = "False" /\ stack'[t] = <<>> /\ UNCHANGED progVars)
              /\ (api.connected /\ api.connection # NoSession) =>
                    (ret'[t] = "True" /\ stack'[t] = <<>> /\ UNCHANGED progVars)]_vars

\* C10 witness: connection_check() has just returned false inside the retry
\* window of a failed connect.
C10_Witness ==
    /\ ev.kind = "call_connection_check"
    /\ ret[ev.t] = "False"
    /\ streakFails >= 1
    /\ ~api.connected
    /\ now - api.connection_epoch < RetrySec

\* C11: with one caller, a query() entered while disconnected and outside
\* the retry window sends one login and then, only if the login succeeded,
\* the query request; a query() entered while disconnected inside the window
\* sends nothing and returns None; after a failed login it returns None.
C11_OneLoginThenQuery ==
    \A t \in Threads :
        cur[t].op = "query" =>
            /\ (~cur[t].conn /\ ~cur[t].window) =>
                  /\ sent[t] \in {<<>>, <<"login">>, <<"login", "ok">>,
                                  <<"login", "ok", "query">>, <<"login", "fail">>}
                  /\ Idle(t) => Len(sent[t]) >= 2
                  /\ sent[t] = <<"login", "fail">> => (Idle(t) /\ ret[t] = "None")
            /\ (~cur[t].conn /\ cur[t].window) =>
                  (sent[t] = <<>> /\ Idle(t) /\ ret[t] = "None")

\* C11 witness: a query() entered while disconnected and outside the window
\* has sent its login, which succeeded, and then its request.
C11_Witness ==
    \E t \in Threads :
        /\ cur[t].op = "query"
        /\ ~cur[t].conn
        /\ ~cur[t].window
        /\ sent[t] = <<"login", "ok", "query">>

\* C12: right after a disconnect() call connected is false, the session is
\* null, reconnectedFlag is false and lastConnectAttemptTime is 0; and a
\* connection_check() that finds lastConnectAttemptTime = 0 enters connect().
C12_DisconnectResets ==
    /\ [](ev.kind = "disconnect" =>
            /\ ~api.connected
            /\ api.connection = NoSession
            /\ ~api.reconnected
            /\ api.connection_epoch = 0)
    /\ [][(api.connection_epoch = 0 /\ ev'.kind = "call_connection_check") =>
            /\ nsess' = nsess + 1
            /\ stack'[ev'.t] # <<>>
            /\ Head(stack'[ev'.t]).pc = "c_acquire"]_vars

\* C12 witness: a connection_check() has entered connect() less than one
\* retry window after the connect() entry before it.
C12_Witness ==
    /\ ev.kind = "call_connection_check"
    /\ At(ev.t, "c_acquire")
    /\ nsess >= 2
    /\ lastTry.src = "check"
    /\ lastTry.gap < RetrySec

\* C13: with one caller, a failed login leaves connected false, the session
\* null and lastErrorKind wrong_login for the bad-login message and
\* cannot_connect otherwise, and connect() returns False; a successful login
\* leaves connected true and lastErrorKind empty, and connect() returns True.
C13_ConnectOutcome ==
    /\ ev.kind = "connect_fail" =>
          /\ ~api.connected
          /\ api.connection = NoSession
          /\ api.error = IF ev.o = "badlogin" THEN "wrong_login" ELSE "cannot_connect"
          /\ cur[ev.t].op \in {"connect", "connection_check"} =>
                (Idle(ev.t) /\ ret[ev.t] = "False")
    /\ ev.kind = "connect_ok" =>
          /\ api.connected
          /\ api.error = ""
          /\ cur[ev.t].op \in {"connect", "connection_check"} =>
                (Idle(ev.t) /\ ret[ev.t] = "True")

\* C13 witness: connect() has just returned False for the bad-login message.
C13_Witness ==
    /\ ev.kind = "connect_fail"
    /\ ev.o = "badlogin"
    /\ cur[ev.t].op = "connect"
    /\ ret[ev.t] = "False"
    /\ api.error = "wrong_login"

\* C14: a query() that returned None has left a lastErrorKind other than
\* none (cannot_connect or wrong_login).
C14_FailureRecordsKind ==
    \A t \in Threads :
        (cur[t].op = "query" /\ Idle(t) /\ ret[t] = "None") =>
            api.error \in {"cannot_connect", "wrong_login"}

\* C15: right after a transport failure of a query's request query() has
\* returned None, the mutex is free, connected is false, the session is null
\* and lastConnectAttemptTime is 0; the query() called next enters connect().
C15_QueryTransportFailure ==
    /\ [](ev.kind = "query_fail" =>
            /\ Idle(ev.t)
            /\ ret[ev.t] = "None"
            /\ lock = NoOne
            /\ ~api.connected
            /\ api.connection = NoSession
            /\ api.connection_epoch = 0)
    /\ [][(ev.kind = "query_fail" /\ ev'.kind = "call_query") =>
            /\ nsess' = nsess + 1
            /\ stack'[ev'.t] # <<>>
            /\ Head(stack'[ev'.t]).pc = "c_acquire"]_vars

\* C15 witness: a query() has just returned None on a transport failure of
\* its request, sent on an authenticated session.
C15_Witness ==
    /\ ev.kind = "query_fail"
    /\ ev.o = "transport"
    /\ ret[ev.t] = "None"
    /\ lastAuthed # NoSession
    /\ api.connection_epoch = 0

\* C16: with one caller, a query whose envelope carries an error code other
\* than 5001 and 5002 returns the envelope's response field, enters no
\* connect() and leaves the object's fields as they were.
C16_OtherErrorLeavesState ==
    [][\A t \in Threads :
          (/\ ev'.t = t
           /\ ev'.kind \in {"query_return", "query_expired"}
           /\ ev'.o \notin {"0", "5001", "5002"}) =>
              /\ ev'.kind = "query_return"
              /\ api' = api
              /\ nsess' = nsess
              /\ lock' = NoOne
              /\ stack'[t] = <<>>
              /\ ret'[t] = "null"]_vars

\* C16 witness: a query() has just returned the response field of an envelope
\* with error code 5000, and the object is still connected.
C16_Witness ==
    /\ ev.kind = "query_return"
    /\ ev.o = "5000"
    /\ ret[ev.t] = "null"
    /\ api.connected

\* C17: every acquisition of the mutex is followed by its release.
C17_EveryAcquireReleased ==
    \A t \in Threads : (lock = t) ~> (lock = NoOne)

\* C18: with two callers, a query that holds the mutex and is about to send
\* its request finds a transport session.
C18_QueryPostsOnSession ==
    \A t \in Threads :
        (At(t, "q_post") /\ lock = t) => api.connection # NoSession

\* C19: with one caller, a connect() entered by connection_check() or query()
\* after one that they entered and that failed, with no disconnect() call in
\* between, comes at least RetrySec after it.
C19_RateLimited ==
    (lastTry.src = "check" /\ lastTry.chained) => lastTry.gap >= RetrySec

\* C19 witness: connection_check() or query() has entered connect() for the
\* second time in a row, the first login having failed.
C19_Witness ==
    /\ lastTry.src = "check"
    /\ lastTry.chained
    /\ lastTry.gap >= RetrySec
    /\ nsess >= 2

\* C20: once a query() has got a session-expired envelope, if no login and no
\* request fails from then on, the client is connected again at some time and
\* a query() has returned a payload.
C20_Recovers ==
    \A t \in Threads :
        []((InReauth(t) /\ [](ev.kind \notin {"connect_fail", "query_fail"})) =>
              <>(api.connected /\ \E u \in Threads : Idle(u) /\ ret[u] \in Payloads))

====
